---- MODULE Spec2Model ----
(***************************************************************************)
(* Model of the resume similarity store (src/vector_store.py) and of the   *)
(* HTTP handlers that call it (src/main.py).                               *)
(*                                                                         *)
(* Representation                                                          *)
(*  - an embedding vector of dimension d whose only non-zero coordinate is *)
(*    the first one is the record [dim |-> d, x |-> first coordinate]; the *)
(*    squared L2 distance of two such vectors is (x1 - x2)^2;              *)
(*  - a text is a run-length encoded string: a sequence of runs            *)
(*    [ch |-> character code, n |-> repetitions];                          *)
(*  - a score is the integer number of ten-thousandths that                *)
(*    round(1 / (1 + dist), 4) yields;                                     *)
(*  - a file is a record saying whether it exists and what it holds: the   *)
(*    index file the dimension and the coordinates, the catalog file the   *)
(*    JSON objects as sequences of key/value pairs.                        *)
(***************************************************************************)
EXTENDS Integers, Sequences, FiniteSets, TLC

(* ------------------------------ bounds -------------------------------- *)
MaxN == 2        \* add_resume is not called on a store of MaxN records
MaxCoord == 1    \* first coordinates of the queries range over 0..MaxCoord
MaxTopK == 2     \* top_k ranges over 1..MaxTopK
MaxFaults == 1   \* injected faults (a raise of the environment, a crash) per run

(* ------------------------- program constants --------------------------- *)
DIMENSION == 384
SCORE_DIGITS == 10000                  \* round(..., 4)
MIN_SCORE == (4 * SCORE_DIGITS) \div 10
PREVIEW_LEN == 1000                    \* text[:1000]
FETCH_FACTOR == 5                      \* top_k * 5

(* ------------------------------ domains -------------------------------- *)
Filenames == {"a", "b"}

Vec(c) == [dim |-> DIMENSION, x |-> c]
Queries == {Vec(c) : c \in 0..MaxCoord}
Embeddings == {Vec(0), Vec(1)}
BadVector == [dim |-> DIMENSION - 1, x |-> 0]
NoVector == [dim |-> 0, x |-> 0]

ShortText == << [ch |-> 1, n |-> 2] >>
LongText == << [ch |-> 2, n |-> 1], [ch |-> 1, n |-> PREVIEW_LEN] >>
FullText == << [ch |-> 2, n |-> PREVIEW_LEN] >>
Texts == {ShortText, LongText}

TopKs == 1..MaxTopK
MinScores == {MIN_SCORE, SCORE_DIGITS}

Min(a, b) == IF a <= b THEN a ELSE b

(* --------------------------- pure functions ---------------------------- *)
RECURSIVE TextLen(_)
TextLen(t) == IF t = << >> THEN 0 ELSE Head(t).n + TextLen(Tail(t))

\* text[:k] on a run-length encoded string
RECURSIVE Slice(_, _)
Slice(t, k) ==
    IF t = << >> \/ k <= 0 THEN << >>
    ELSE IF Head(t).n <= k THEN << Head(t) >> \o Slice(Tail(t), k - Head(t).n)
    ELSE << [ch |-> Head(t).ch, n |-> k] >>

Preview(t) == Slice(t, PREVIEW_LEN)

RECURSIVE CharSum(_)
CharSum(t) == IF t = << >> THEN 0 ELSE Head(t).ch * Head(t).n + CharSum(Tail(t))

\* the embedding provider: a deterministic function of the text
embed_text(t) == Vec(CharSum(t) % (MaxCoord + 1))

\* squared L2 distance, IndexFlatL2
L2(u, v) == (u.x - v.x) * (u.x - v.x)

\* round(float(1 / (1 + dist)), 4) in ten-thousandths, ties to even
ScoreOf(dist) ==
    LET den == 1 + dist
        q == SCORE_DIGITS \div den
        r == SCORE_DIGITS % den
    IN  IF 2 * r > den THEN q + 1
        ELSE IF 2 * r < den THEN q
        ELSE IF q % 2 = 0 THEN q ELSE q + 1

(* ------------------------------- state --------------------------------- *)
VARIABLES
    index,        \* _index: [isNone, vecs], the in-memory vector index
    meta,         \* _meta: the in-memory catalog, a sequence of records
    INDEX_FILE,   \* resume_index.faiss: [exists, vecs]
    META_FILE,    \* resume_meta.json: [state, recs], state absent/empty/json
    last,         \* the last call: its arguments, injected fault and outcome
    faults,       \* the number of faults injected so far
    live,         \* the [filename, embedding] of the records that add_resume
                  \* has stored and no clear_all or rebuild has touched since
    \* the same module with its handlers running in threads (ConcSpec): the
    \* globals hold references to objects that the threads share
    g_index,      \* _index: a reference into indexes, 0 for None
    g_meta,       \* _meta: a reference into lists
    indexes,      \* the IndexFlatL2 objects: each a sequence of vectors
    lists,        \* the list objects: each a sequence of references into dicts
    dicts,        \* the dict objects: the catalog records
    th,           \* the threads: call, position, locals, outcome
    \* the session-only store of src/app.py, run side by side with the
    \* module above (EquivSpec)
    session_state,  \* st.session_state: [init, faiss_index, resume_meta]
    app_last        \* the last call of a function of app.py and its outcome

seqVars == << index, meta, last, faults, live >>
heapVars == << g_index, g_meta, indexes, lists, dicts >>
concVars == << g_index, g_meta, indexes, lists, dicts, th >>
appVars == << session_state, app_last >>
vars == << index, meta, INDEX_FILE, META_FILE, last, faults, live,
           g_index, g_meta, indexes, lists, dicts, th,
           session_state, app_last >>

\* a call runs under the fault f only while the budget of faults lasts
Inject(f) ==
    IF f = "none" THEN UNCHANGED faults
    ELSE faults < MaxFaults /\ faults' = faults + 1

NoneIndex == [isNone |-> TRUE, vecs |-> << >>]
IndexFlatL2(vs) == [isNone |-> FALSE, vecs |-> vs]
AbsentIndexFile == [exists |-> FALSE, vecs |-> << >>]
AbsentMetaFile == [state |-> "absent", recs |-> << >>]
EmptyMetaFile == [state |-> "empty", recs |-> << >>]

Rec(i, f, t) == [id |-> i, filename |-> f, text |-> t]

\* st.session_state before _init_store() has run
NoSession == [init |-> FALSE, faiss_index |-> << >>, resume_meta |-> << >>]
NoAppCall == [op |-> "none", ret |-> "none", results |-> << >>]

NoCall ==
    [op |-> "none", filename |-> "", text |-> << >>, embedding |-> NoVector,
     top_k |-> 0, min_score |-> 0, fault |-> "none", fail_at |-> 0,
     ret |-> "none", error |-> "none", again |-> FALSE,
     cands |-> << >>, results |-> << >>]

(* --------------------------- load and save ----------------------------- *)
\* faiss.write_index: the file holds the dimension of the index and then the
\* coordinates of its vectors, one vector after the other
write_index(ix) ==
    [exists |-> TRUE,
     vecs |-> << DIMENSION >> \o [i \in 1..Len(ix.vecs) |-> ix.vecs[i].x]]

\* faiss.read_index: an index of the dimension and the vectors the file holds
read_index(file) ==
    LET d == Head(file.vecs)
        xb == Tail(file.vecs)
    IN  IndexFlatL2([i \in 1..Len(xb) |-> [dim |-> d, x |-> xb[i]]])

\* json.dump of the catalog: an array of objects, each the key/value pairs
\* of a dict in the order of insertion
json_dump(m) ==
    [state |-> "json",
     recs |-> [i \in 1..Len(m) |->
                 << << "id", m[i].id >>, << "filename", m[i].filename >>,
                    << "text", m[i].text >> >>]]

\* the value an object holds under a key
Member(o, key) == o[CHOOSE k \in 1..Len(o) : o[k][1] = key][2]

\* a load that loses the text previews
json_load_without_text(file) ==
    [i \in 1..Len(file.recs) |->
        Rec(Member(file.recs[i], "id"), Member(file.recs[i], "filename"), << >>)]

\* json.load: a list of dicts with the keys and values of the objects
json_load(file) ==
    [i \in 1..Len(file.recs) |->
        Rec(Member(file.recs[i], "id"), Member(file.recs[i], "filename"),
            Member(file.recs[i], "text"))]

\* _get_index(): the index object the call works on
GetIndex(ix, file) ==
    IF ix.isNone
    THEN IF file.exists THEN read_index(file) ELSE IndexFlatL2(<< >>)
    ELSE ix

\* _get_meta(): the catalog the call works on, or JSONDecodeError when the
\* in-memory catalog is empty and the file exists but holds no JSON value
GetMeta(m, file) ==
    IF m = << >> /\ file.state # "absent"
    THEN IF file.state = "json"
         THEN [raised |-> FALSE, meta |-> json_load(file)]
         ELSE [raised |-> TRUE, meta |-> m]
    ELSE [raised |-> FALSE, meta |-> m]

\* _save_meta(): open(META_FILE, "w") truncates the file, then the argument
\* _get_meta() is evaluated, then json.dump writes
SaveMeta(m) ==
    LET gm == GetMeta(m, EmptyMetaFile)
    IN  IF gm.raised
        THEN [raised |-> TRUE, file |-> EmptyMetaFile]
        ELSE [raised |-> FALSE, file |-> json_dump(gm.meta)]

SaveFaults == {"none", "save_index_raises", "save_meta_raises", "crash_between"}

\* _save_index(); _save_meta() at the end of a mutating call, under an
\* injected fault: a write that raises, or a crash between the two writes
Save(ix, m, fault) ==
    LET sm == SaveMeta(m)
    IN  CASE fault = "save_index_raises" ->
               [index |-> ix, meta |-> m, ifile |-> INDEX_FILE,
                mfile |-> META_FILE, ret |-> "raise", error |-> "OSError"]
          [] fault = "save_meta_raises" ->
               [index |-> ix, meta |-> m, ifile |-> write_index(ix),
                mfile |-> META_FILE, ret |-> "raise", error |-> "OSError"]
          [] fault = "crash_between" ->
               [index |-> NoneIndex, meta |-> << >>, ifile |-> write_index(ix),
                mfile |-> META_FILE, ret |-> "crash", error |-> "none"]
          [] OTHER ->
               [index |-> ix, meta |-> m, ifile |-> write_index(ix),
                mfile |-> sm.file,
                ret |-> IF sm.raised THEN "raise" ELSE "done",
                error |-> IF sm.raised THEN "JSONDecodeError" ELSE "none"]

\* what the next call will see
IndexView == GetIndex(index, INDEX_FILE).vecs
MetaView == GetMeta(meta, META_FILE)
Catalog == MetaView.meta

(* ------------------------------- search -------------------------------- *)
\* index.search(vec, k): the positions (from 0) of the stored vectors by
\* ascending distance to q; vectors at equal distance come in any order
RECURSIVE NearestOrders(_, _, _)
NearestOrders(vs, q, S) ==
    IF S = {} THEN { << >> }
    ELSE LET nearest == {i \in S : \A j \in S : L2(vs[i + 1], q) <= L2(vs[j + 1], q)}
         IN  UNION { { << i >> \o o : o \in NearestOrders(vs, q, S \ {i}) } : i \in nearest }

IndexSearchOrders(vs, q) == NearestOrders(vs, q, 0..(Len(vs) - 1))

\* a threshold that is exclusive
AboveThreshold(score, min_score) == score > min_score

\* score >= min_score
MeetsThreshold(score, min_score) == score >= min_score

\* the for loop of search_resumes over zip(distances[0], indices[0])
RECURSIVE SearchLoop(_, _, _, _, _, _, _)
SearchLoop(cands, vs, m, q, top_k, min_score, results) ==
    IF cands = << >> THEN results
    ELSE LET idx == Head(cands)
             score == ScoreOf(L2(vs[idx + 1], q))
         IN  IF idx < Len(m)
             THEN LET r2 == IF MeetsThreshold(score, min_score)
                            THEN Append(results,
                                        [id |-> m[idx + 1].id,
                                         filename |-> m[idx + 1].filename,
                                         text |-> m[idx + 1].text,
                                         score |-> score])
                            ELSE results
                  IN  IF Len(r2) >= top_k THEN r2
                      ELSE SearchLoop(Tail(cands), vs, m, q, top_k, min_score, r2)
             ELSE SearchLoop(Tail(cands), vs, m, q, top_k, min_score, results)

\* results.sort(key=score, reverse=True): stable, equal scores keep their order
RECURSIVE InsertByScore(_, _)
InsertByScore(sorted, e) ==
    IF sorted = << >> THEN << e >>
    ELSE IF Head(sorted).score >= e.score
         THEN << Head(sorted) >> \o InsertByScore(Tail(sorted), e)
         ELSE << e >> \o sorted

RECURSIVE SortByScoreDesc(_)
SortByScoreDesc(rs) ==
    IF rs = << >> THEN << >>
    ELSE InsertByScore(SortByScoreDesc(SubSeq(rs, 1, Len(rs) - 1)), rs[Len(rs)])

\* search_k = min(top_k * 5, index.ntotal)
SearchK(top_k, ntotal) == Min(top_k * FETCH_FACTOR, ntotal)

(* --------------------------- catalog helpers --------------------------- *)
\* [m for m in meta if m["filename"] != filename]
Without(m, filename) ==
    LET keep(r) == r.filename # filename IN SelectSeq(m, keep)

\* a rebuild that leaves the ids as they were
ReindexedKeepingIds(new_meta, k) == SubSeq(new_meta, 1, k)

\* entry["id"] = i for the first k entries of new_meta, in order
Reindexed(new_meta, k) ==
    [i \in 1..k |-> [new_meta[i] EXCEPT !.id = i - 1]]

\* a rebuild that embeds the text of the first entry for every entry
ReembeddedFirst(new_meta, k) ==
    [i \in 1..k |-> embed_text(new_meta[1].text)]

\* the vectors the rebuild loop has added after k iterations
Reembedded(new_meta, k) ==
    [i \in 1..k |-> embed_text(new_meta[i].text)]

(* ------------------------------ operations ----------------------------- *)
\* add_resume(filename, text, embedding)
add_resume(filename, text, embedding, fault) ==
    LET ix == GetIndex(index, INDEX_FILE)
        gm == GetMeta(meta, META_FILE)
        call == [NoCall EXCEPT !.op = "add", !.filename = filename, !.text = text,
                               !.embedding = embedding, !.fault = fault]
    IN  /\ Inject(fault)
        /\ IF gm.raised
           THEN /\ fault = "none"
                /\ index' = ix
                /\ last' = [call EXCEPT !.ret = "raise", !.error = "JSONDecodeError"]
                /\ UNCHANGED << meta, INDEX_FILE, META_FILE >>
           ELSE IF embedding.dim # DIMENSION
           THEN \* index.add asserts the dimension
                /\ fault = "none"
                /\ index' = ix
                /\ meta' = gm.meta
                /\ last' = [call EXCEPT !.ret = "raise", !.error = "AssertionError"]
                /\ UNCHANGED << INDEX_FILE, META_FILE >>
           ELSE /\ Len(ix.vecs) < MaxN
                /\ Len(gm.meta) < MaxN
                /\ LET ix2 == IndexFlatL2(Append(ix.vecs, embedding))
                       m2 == Append(gm.meta,
                                    Rec(Len(ix2.vecs) - 1, filename, Preview(text)))
                       sv == Save(ix2, m2, fault)
                   IN  /\ index' = sv.index
                       /\ meta' = sv.meta
                       /\ INDEX_FILE' = sv.ifile
                       /\ META_FILE' = sv.mfile
                       /\ last' = [call EXCEPT !.ret = sv.ret, !.error = sv.error]

\* a search that sets the score on the catalog record itself, not on a copy
search_resumes_without_copy(query_embedding, top_k, min_score, order) ==
    LET ix == GetIndex(index, INDEX_FILE)
        gm == GetMeta(meta, META_FILE)
        call == [NoCall EXCEPT !.op = "search", !.embedding = query_embedding,
                               !.top_k = top_k, !.min_score = min_score]
        cands == SubSeq(order, 1, SearchK(top_k, Len(ix.vecs)))
        results == SearchLoop(cands, ix.vecs, gm.meta, query_embedding,
                              top_k, min_score, << >>)
        scored(i) == {j \in 1..Len(results) : results[j].id = gm.meta[i].id}
    IN  /\ index' = ix
        /\ UNCHANGED << INDEX_FILE, META_FILE, faults >>
        /\ IF gm.raised
           THEN /\ last' = [call EXCEPT !.ret = "raise", !.error = "JSONDecodeError"]
                /\ UNCHANGED meta
           ELSE IF Len(ix.vecs) = 0
           THEN /\ meta' = gm.meta
                /\ last' = [call EXCEPT !.ret = "done"]
           ELSE /\ meta' = [i \in 1..Len(gm.meta) |->
                              IF scored(i) = {} THEN gm.meta[i]
                              ELSE results[CHOOSE j \in scored(i) : TRUE]]
                /\ last' = [call EXCEPT !.ret = "done", !.cands = cands,
                                        !.results = SortByScoreDesc(results)]

\* search_resumes(query_embedding, top_k, min_score); order is the order in
\* which index.search returns the stored vectors; the entry that gets the
\* score is a copy of the catalog record
search_resumes(query_embedding, top_k, min_score, order) ==
    LET ix == GetIndex(index, INDEX_FILE)
        gm == GetMeta(meta, META_FILE)
        call == [NoCall EXCEPT !.op = "search", !.embedding = query_embedding,
                               !.top_k = top_k, !.min_score = min_score]
        cands == SubSeq(order, 1, SearchK(top_k, Len(ix.vecs)))
        results == SearchLoop(cands, ix.vecs, gm.meta, query_embedding,
                              top_k, min_score, << >>)
    IN  /\ index' = ix
        /\ UNCHANGED << INDEX_FILE, META_FILE, faults >>
        /\ IF gm.raised
           THEN /\ last' = [call EXCEPT !.ret = "raise", !.error = "JSONDecodeError"]
                /\ UNCHANGED meta
           ELSE /\ meta' = gm.meta
                /\ IF Len(ix.vecs) = 0
                   THEN last' = [call EXCEPT !.ret = "done"]
                   ELSE last' = [call EXCEPT !.ret = "done", !.cands = cands,
                                             !.results = SortByScoreDesc(results)]

\* get_all_resumes()
get_all_resumes ==
    LET gm == GetMeta(meta, META_FILE)
        call == [NoCall EXCEPT !.op = "list"]
    IN  /\ meta' = gm.meta
        /\ last' = [call EXCEPT !.ret = IF gm.raised THEN "raise" ELSE "done",
                                !.error = IF gm.raised THEN "JSONDecodeError"
                                          ELSE "none"]
        /\ UNCHANGED << index, INDEX_FILE, META_FILE, faults >>

DeleteFaults == SaveFaults \cup {"embed_raises"}

\* delete_resume(filename); under the fault embed_raises the embedding
\* provider raises on the k-th surviving record
delete_resume(filename, fault, k) ==
    LET gm == GetMeta(meta, META_FILE)
        new_meta == Without(gm.meta, filename)
        call == [NoCall EXCEPT !.op = "delete", !.filename = filename,
                               !.fault = fault, !.fail_at = k]
    IN  /\ Inject(fault)
        /\ IF gm.raised
           THEN /\ fault = "none" /\ k = 0
                /\ last' = [call EXCEPT !.ret = "raise", !.error = "JSONDecodeError"]
                /\ UNCHANGED << index, meta, INDEX_FILE, META_FILE >>
           ELSE IF Len(new_meta) = Len(gm.meta)
           THEN /\ fault = "none" /\ k = 0
                /\ meta' = gm.meta
                /\ last' = [call EXCEPT !.ret = "false"]
                /\ UNCHANGED << index, INDEX_FILE, META_FILE >>
           ELSE IF fault = "embed_raises"
           THEN /\ k \in 1..Len(new_meta)
                /\ index' = IndexFlatL2(Reembedded(new_meta, k - 1))
                /\ meta' = Reindexed(new_meta, k - 1)
                /\ last' = [call EXCEPT !.ret = "raise", !.error = "EmbedError"]
                /\ UNCHANGED << INDEX_FILE, META_FILE >>
           ELSE /\ k = 0
                /\ LET n == Len(new_meta)
                       sv == Save(IndexFlatL2(Reembedded(new_meta, n)),
                                  Reindexed(new_meta, n), fault)
                   IN  /\ index' = sv.index
                       /\ meta' = sv.meta
                       /\ INDEX_FILE' = sv.ifile
                       /\ META_FILE' = sv.mfile
                       /\ last' = [call EXCEPT !.ret = IF sv.ret = "done" THEN "true"
                                                       ELSE sv.ret,
                                                !.error = sv.error]

\* the state clear_all leaves: empty index, empty catalog, no files
Emptied ==
    /\ index = IndexFlatL2(<< >>)
    /\ meta = << >>
    /\ ~INDEX_FILE.exists
    /\ META_FILE.state = "absent"

\* a clear_all that resets the globals and leaves the files
clear_all_keeping_files(fault) ==
    LET call == [NoCall EXCEPT !.op = "clear", !.fault = fault, !.again = Emptied]
    IN  /\ Inject(fault)
        /\ index' = IF fault = "crash_between" THEN NoneIndex ELSE IndexFlatL2(<< >>)
        /\ meta' = << >>
        /\ UNCHANGED << INDEX_FILE, META_FILE >>
        /\ last' = [call EXCEPT !.ret = IF fault = "crash_between" THEN "crash"
                                        ELSE "done"]

\* clear_all(); under the fault crash_between the process stops between the
\* two os.remove calls; again records that the call found the state a
\* clear_all leaves
clear_all(fault) ==
    LET call == [NoCall EXCEPT !.op = "clear", !.fault = fault, !.again = Emptied]
    IN  /\ Inject(fault)
        /\ INDEX_FILE' = AbsentIndexFile
        /\ IF fault = "crash_between"
           THEN /\ index' = NoneIndex
                /\ meta' = << >>
                /\ UNCHANGED META_FILE
                /\ last' = [call EXCEPT !.ret = "crash"]
           ELSE /\ index' = IndexFlatL2(<< >>)
                /\ meta' = << >>
                /\ META_FILE' = AbsentMetaFile
                /\ last' = [call EXCEPT !.ret = "done"]

\* the process stops between two calls and is started again: the module
\* globals are back to _index = None, _meta = []
Restart ==
    /\ index' = NoneIndex
    /\ meta' = << >>
    /\ last' = [NoCall EXCEPT !.op = "restart"]
    /\ UNCHANGED << INDEX_FILE, META_FILE, faults >>

(* --------------------------- specification ----------------------------- *)
\* a store left on disk by an earlier run of the process: FETCH_FACTOR + 1
\* records added one after the other, so that top_k * 5 can fall below N, or
\* three records added with embeddings that are not those of their previews
PersistedStores ==
    LET n == FETCH_FACTOR + 1
        names == << "a", "b", "c", "d", "e", "f" >>
        texts == << ShortText, LongText, FullText >>
    IN  { [vecs |-> [i \in 1..n |-> Vec(((i + s) % n) + 1)],
           recs |-> [i \in 1..n |-> Rec(i - 1, names[i],
                                        Preview(texts[(i % 3) + 1]))]]
          : s \in 0..2 }
        \cup
        { [vecs |-> << Vec(3), Vec(4), Vec(5) >>,
           recs |-> << Rec(0, "a", Preview(ShortText)), Rec(1, "b", Preview(LongText)),
                       Rec(2, "c", Preview(FullText)) >>] }

\* the files after FETCH_FACTOR calls of add_resume that each stopped between
\* _save_index() and _save_meta(), and one call that returned: the index
\* file holds the vectors of all six calls, the catalog file the record of
\* the last one, with id = index.ntotal - 1
OrphanedStore ==
    [vecs |-> << Vec(1) >> \o [i \in 1..FETCH_FACTOR |-> Vec(0)],
     recs |-> << Rec(FETCH_FACTOR, "a", Preview(ShortText)) >>]

\* a record that add_resume has stored with the embedding e
Added(f, e) == [filename |-> f, embedding |-> e]

\* the state after import: nothing loaded, the files as earlier runs left them
Init ==
    /\ index = NoneIndex
    /\ meta = << >>
    /\ last = NoCall
    /\ faults = 0
    /\ g_index = 0 /\ g_meta = 0
    /\ indexes = << >> /\ lists = << >> /\ dicts = << >>
    /\ th = << >>
    /\ session_state = NoSession /\ app_last = NoAppCall
    /\ \/ /\ INDEX_FILE = AbsentIndexFile
          /\ META_FILE = AbsentMetaFile
          /\ live = {}
       \/ \E st \in PersistedStores :
             /\ INDEX_FILE = write_index(IndexFlatL2(st.vecs))
             /\ META_FILE = json_dump(st.recs)
             /\ live = {Added(st.recs[i].filename, st.vecs[i]) :
                           i \in 1..Len(st.recs)}
       \/ /\ INDEX_FILE = write_index(IndexFlatL2(OrphanedStore.vecs))
          /\ META_FILE = json_dump(OrphanedStore.recs)
          /\ live = {Added(OrphanedStore.recs[1].filename,
                           OrphanedStore.vecs[FETCH_FACTOR + 1])}

\* a call is accepted when the previous one has been answered
Idle == last.op = "none"

AddResume ==
    /\ Idle
    /\ UNCHANGED << concVars, appVars >>
    /\ \E f \in Filenames, t \in Texts, e \in Embeddings \cup {BadVector}, fault \in SaveFaults :
          add_resume(f, t, e, fault)
    /\ live' = IF last'.ret = "done"
               THEN live \cup {Added(last'.filename, last'.embedding)}
               ELSE live

SearchResumes ==
    /\ Idle
    /\ UNCHANGED << concVars, appVars >>
    /\ \E q \in Queries :
          \E o \in IndexSearchOrders(GetIndex(index, INDEX_FILE).vecs, q) :
             \E k \in TopKs, ms \in MinScores : search_resumes(q, k, ms, o)
    /\ UNCHANGED live

GetAllResumes == Idle /\ get_all_resumes /\ UNCHANGED << live, concVars, appVars >>

DeleteResume ==
    /\ Idle
    /\ UNCHANGED << concVars, appVars >>
    /\ \E f \in Filenames, fault \in DeleteFaults, k \in 0..FETCH_FACTOR :
          delete_resume(f, fault, k)
    /\ live' = IF last'.ret = "false" THEN live ELSE {}

ClearAll ==
    /\ Idle
    /\ UNCHANGED << concVars, appVars >>
    /\ \E fault \in {"none", "crash_between"} : clear_all(fault)
    /\ live' = {}

ProcessRestart == Idle /\ Restart /\ UNCHANGED << live, concVars, appVars >>

\* the caller takes the outcome of the call
Return ==
    /\ ~Idle
    /\ last' = NoCall
    /\ UNCHANGED << index, meta, INDEX_FILE, META_FILE, faults, live >>
    /\ UNCHANGED << concVars, appVars >>

Next ==
    \/ AddResume
    \/ SearchResumes
    \/ GetAllResumes
    \/ DeleteResume
    \/ ClearAll
    \/ ProcessRestart
    \/ Return

Spec == Init /\ [][Next]_vars

(* ------------------- the handlers running in threads ------------------- *)
\* main.py: submit_resume is a coroutine and runs on the event loop thread;
\* search, list_resumes, remove_resume and clear_index are plain functions and
\* run on threads of the worker pool. A step of a thread is one source line
\* of vector_store.py, a call of _get_index, _get_meta, _save_index or
\* _save_meta counting as one step.
NThreads == 3
Threads == 1..NThreads
LoopThread == 1

IdleThread ==
    [op |-> "none", pc |-> "idle", filename |-> "", text |-> << >>,
     embedding |-> NoVector, top_k |-> 0, min_score |-> 0,
     index |-> 0, meta |-> 0, new_meta |-> << >>, i |-> 0, ret |-> "none",
     obs_index |-> << >>, obs_meta |-> << >>, cands |-> << >>, results |-> << >>]

\* the store an earlier run of the process left on disk
StoredVecs == << Vec(0), Vec(1) >>
StoredRecs == << Rec(0, "a", Preview(ShortText)), Rec(1, "b", Preview(LongText)) >>

\* the records a list object holds
Values(l) == [k \in 1..Len(l) |-> dicts[l[k]]]

At(t, op, pc) == th[t].op = op /\ th[t].pc = pc
Goto(t, r) == th' = [th EXCEPT ![t] = r] /\ UNCHANGED << seqVars, appVars >>
Heap(gi, gm, ixs, ls, ds) ==
    /\ g_index' = gi /\ g_meta' = gm
    /\ indexes' = ixs /\ lists' = ls /\ dicts' = ds

\* _get_index() on the shared objects
HeapGetIndex ==
    IF g_index = 0
    THEN [ref |-> Len(indexes) + 1,
          indexes |-> Append(indexes, IF INDEX_FILE.exists THEN read_index(INDEX_FILE).vecs
                                      ELSE << >>)]
    ELSE [ref |-> g_index, indexes |-> indexes]

\* _get_meta() on the shared objects: json.load makes a new list of new dicts
HeapGetMeta(file) ==
    IF lists[g_meta] = << >> /\ file.state # "absent"
    THEN IF file.state = "json"
         THEN [raised |-> FALSE, ref |-> Len(lists) + 1,
               lists |-> Append(lists, [k \in 1..Len(file.recs) |-> Len(dicts) + k]),
               dicts |-> dicts \o json_load(file)]
         ELSE [raised |-> TRUE, ref |-> g_meta, lists |-> lists, dicts |-> dicts]
    ELSE [raised |-> FALSE, ref |-> g_meta, lists |-> lists, dicts |-> dicts]

\* index = _get_index(), lines 39 and 62
t_get_index(t) ==
    /\ th[t].pc = "get_index"
    /\ LET gi == HeapGetIndex
       IN  /\ Heap(gi.ref, g_meta, gi.indexes, lists, dicts)
           /\ Goto(t, [th[t] EXCEPT !.index = gi.ref, !.pc = "get_meta"])
    /\ UNCHANGED << INDEX_FILE, META_FILE >>

\* meta = _get_meta(), lines 40, 63, 92 and 96
t_get_meta(t) ==
    /\ th[t].pc = "get_meta"
    /\ LET gm == HeapGetMeta(META_FILE)
           next == CASE th[t].op = "add" -> "index_add"
                     [] th[t].op = "search" -> "ntotal"
                     [] th[t].op = "list" -> "respond"
                     [] OTHER -> "filter"
       IN  IF gm.raised
           THEN /\ Goto(t, [th[t] EXCEPT !.pc = "done", !.ret = "raise"])
                /\ UNCHANGED heapVars
           ELSE /\ Heap(g_index, gm.ref, indexes, gm.lists, gm.dicts)
                /\ Goto(t, [th[t] EXCEPT !.meta = gm.ref, !.pc = next])
    /\ UNCHANGED << INDEX_FILE, META_FILE >>

\* _save_index(), lines 48 and 112
t_save_index(t) ==
    /\ th[t].pc = "save_index"
    /\ LET gi == HeapGetIndex
       IN  /\ Heap(gi.ref, g_meta, gi.indexes, lists, dicts)
           /\ INDEX_FILE' = write_index(IndexFlatL2(gi.indexes[gi.ref]))
    /\ Goto(t, [th[t] EXCEPT !.pc = "save_meta"])
    /\ UNCHANGED META_FILE

\* _save_meta(), lines 49 and 113
t_save_meta(t) ==
    /\ th[t].pc = "save_meta"
    /\ LET gm == HeapGetMeta(EmptyMetaFile)
       IN  IF gm.raised
           THEN /\ META_FILE' = EmptyMetaFile
                /\ Goto(t, [th[t] EXCEPT !.pc = "done", !.ret = "raise"])
                /\ UNCHANGED heapVars
           ELSE /\ META_FILE' = json_dump(Values(lists[gm.ref]))
                /\ Goto(t, [th[t] EXCEPT !.pc = "done",
                              !.ret = IF th[t].op = "delete" THEN "true" ELSE "done"])
                /\ UNCHANGED heapVars
    /\ UNCHANGED INDEX_FILE

\* add_resume, lines 41-42: index.add(vec)
add_index_add(t) ==
    /\ At(t, "add", "index_add")
    /\ indexes' = [indexes EXCEPT ![th[t].index] = Append(@, th[t].embedding)]
    /\ Goto(t, [th[t] EXCEPT !.pc = "meta_append"])
    /\ UNCHANGED << g_index, g_meta, lists, dicts, INDEX_FILE, META_FILE >>

\* add_resume, lines 43-47: meta.append({...})
add_meta_append(t) ==
    /\ At(t, "add", "meta_append")
    /\ dicts' = Append(dicts, Rec(Len(indexes[th[t].index]) - 1, th[t].filename,
                                  Preview(th[t].text)))
    /\ lists' = [lists EXCEPT ![th[t].meta] = Append(@, Len(dicts) + 1)]
    /\ Goto(t, [th[t] EXCEPT !.pc = "save_index"])
    /\ UNCHANGED << g_index, g_meta, indexes, INDEX_FILE, META_FILE >>

\* search_resumes, lines 65-66
search_ntotal(t) ==
    /\ At(t, "search", "ntotal")
    /\ IF Len(indexes[th[t].index]) = 0
       THEN Goto(t, [th[t] EXCEPT !.pc = "done", !.ret = "done",
                       !.obs_index = indexes[th[t].index],
                       !.obs_meta = Values(lists[th[t].meta])])
       ELSE Goto(t, [th[t] EXCEPT !.pc = "index_search"])
    /\ UNCHANGED << heapVars, INDEX_FILE, META_FILE >>

\* search_resumes, lines 68-71: index.search(vec, search_k)
search_index_search(t) ==
    /\ At(t, "search", "index_search")
    /\ LET vs == indexes[th[t].index]
       IN  \E order \in IndexSearchOrders(vs, th[t].embedding) :
              Goto(t, [th[t] EXCEPT !.pc = "loop", !.obs_index = vs,
                         !.cands = SubSeq(order, 1, SearchK(th[t].top_k, Len(vs)))])
    /\ UNCHANGED << heapVars, INDEX_FILE, META_FILE >>

\* search_resumes, lines 73-89: the loop over the candidates and the sort
search_loop(t) ==
    /\ At(t, "search", "loop")
    /\ LET m == Values(lists[th[t].meta])
           results == SearchLoop(th[t].cands, th[t].obs_index, m, th[t].embedding,
                                 th[t].top_k, th[t].min_score, << >>)
       IN  Goto(t, [th[t] EXCEPT !.pc = "done", !.ret = "done", !.obs_meta = m,
                      !.results = SortByScoreDesc(results)])
    /\ UNCHANGED << heapVars, INDEX_FILE, META_FILE >>

\* main.py line 52: list_resumes reads the list get_all_resumes returned
list_respond(t) ==
    /\ At(t, "list", "respond")
    /\ Goto(t, [th[t] EXCEPT !.pc = "done", !.ret = "done",
                  !.obs_meta = Values(lists[th[t].meta])])
    /\ UNCHANGED << heapVars, INDEX_FILE, META_FILE >>

\* delete_resume, lines 97-100
delete_filter(t) ==
    /\ At(t, "delete", "filter")
    /\ LET meta_ == lists[th[t].meta]
           keep(r) == dicts[r].filename # th[t].filename
           new_meta == SelectSeq(meta_, keep)
       IN  IF Len(new_meta) = Len(meta_)
           THEN Goto(t, [th[t] EXCEPT !.pc = "done", !.ret = "false"])
           ELSE Goto(t, [th[t] EXCEPT !.pc = "new_index", !.new_meta = new_meta])
    /\ UNCHANGED << heapVars, INDEX_FILE, META_FILE >>

\* delete_resume line 103, clear_all line 118: _index = faiss.IndexFlatL2(DIMENSION)
t_new_index(t) ==
    /\ th[t].pc = "new_index"
    /\ indexes' = Append(indexes, << >>)
    /\ g_index' = Len(indexes) + 1
    /\ Goto(t, [th[t] EXCEPT !.pc = "new_meta"])
    /\ UNCHANGED << g_meta, lists, dicts, INDEX_FILE, META_FILE >>

\* delete_resume line 104, clear_all line 119: _meta = []
t_new_meta(t) ==
    /\ th[t].pc = "new_meta"
    /\ lists' = Append(lists, << >>)
    /\ g_meta' = Len(lists) + 1
    /\ Goto(t, [th[t] EXCEPT !.i = 0,
                  !.pc = IF th[t].op = "clear" THEN "remove_index"
                         ELSE IF th[t].new_meta = << >> THEN "save_index"
                         ELSE "embed_add"])
    /\ UNCHANGED << g_index, indexes, dicts, INDEX_FILE, META_FILE >>

\* delete_resume, lines 107-108: _index.add(embed_text(entry["text"]))
delete_embed_add(t) ==
    /\ At(t, "delete", "embed_add")
    /\ indexes' = [indexes EXCEPT ![g_index] =
                      Append(@, embed_text(dicts[th[t].new_meta[th[t].i + 1]].text))]
    /\ Goto(t, [th[t] EXCEPT !.pc = "set_id"])
    /\ UNCHANGED << g_index, g_meta, lists, dicts, INDEX_FILE, META_FILE >>

\* delete_resume, line 109: entry["id"] = i
delete_set_id(t) ==
    /\ At(t, "delete", "set_id")
    /\ dicts' = [dicts EXCEPT ![th[t].new_meta[th[t].i + 1]].id = th[t].i]
    /\ Goto(t, [th[t] EXCEPT !.pc = "meta_append"])
    /\ UNCHANGED << g_index, g_meta, indexes, lists, INDEX_FILE, META_FILE >>

\* delete_resume, line 110: _meta.append(entry)
delete_meta_append(t) ==
    /\ At(t, "delete", "meta_append")
    /\ lists' = [lists EXCEPT ![g_meta] = Append(@, th[t].new_meta[th[t].i + 1])]
    /\ Goto(t, [th[t] EXCEPT !.i = @ + 1,
                  !.pc = IF th[t].i + 1 < Len(th[t].new_meta) THEN "embed_add"
                         ELSE "save_index"])
    /\ UNCHANGED << g_index, g_meta, indexes, dicts, INDEX_FILE, META_FILE >>

\* clear_all, lines 120-121
clear_remove_index(t) ==
    /\ At(t, "clear", "remove_index")
    /\ INDEX_FILE' = AbsentIndexFile
    /\ Goto(t, [th[t] EXCEPT !.pc = "remove_meta"])
    /\ UNCHANGED << heapVars, META_FILE >>

\* clear_all, lines 122-123
clear_remove_meta(t) ==
    /\ At(t, "clear", "remove_meta")
    /\ META_FILE' = AbsentMetaFile
    /\ Goto(t, [th[t] EXCEPT !.pc = "done", !.ret = "done"])
    /\ UNCHANGED << heapVars, INDEX_FILE >>

\* a request arrives: submit_resume on the event loop thread, the other
\* handlers on a thread of the pool
t_call(t) ==
    /\ th[t].op = "none"
    /\ UNCHANGED << heapVars, INDEX_FILE, META_FILE >>
    /\ IF t = LoopThread
       THEN Goto(t, [th[t] EXCEPT !.op = "add", !.pc = "get_index",
                       !.filename = "d", !.text = LongText,
                       !.embedding = embed_text(LongText)])
       ELSE \/ Goto(t, [th[t] EXCEPT !.op = "search", !.pc = "get_index",
                          !.embedding = Vec(0), !.top_k = MaxTopK,
                          !.min_score = MIN_SCORE])
            \/ Goto(t, [th[t] EXCEPT !.op = "list", !.pc = "get_meta"])
            \/ \E f \in Filenames :
                  Goto(t, [th[t] EXCEPT !.op = "delete", !.pc = "get_meta",
                             !.filename = f])
            \/ Goto(t, [th[t] EXCEPT !.op = "clear", !.pc = "new_index"])

\* the state after import, with the files of an earlier run
ConcInit ==
    /\ index = NoneIndex /\ meta = << >> /\ last = NoCall /\ faults = 0
    /\ live = {}
    /\ g_index = 0
    /\ g_meta = 1
    /\ indexes = << >>
    /\ lists = << << >> >>
    /\ dicts = << >>
    /\ th = [t \in Threads |-> IdleThread]
    /\ session_state = NoSession /\ app_last = NoAppCall
    /\ INDEX_FILE = write_index(IndexFlatL2(StoredVecs))
    /\ META_FILE = json_dump(StoredRecs)

ConcNext ==
    \E t \in Threads :
          \/ t_call(t)
          \/ t_get_index(t)
          \/ t_get_meta(t)
          \/ t_save_index(t)
          \/ t_save_meta(t)
          \/ add_index_add(t)
          \/ add_meta_append(t)
          \/ search_ntotal(t)
          \/ search_index_search(t)
          \/ search_loop(t)
          \/ list_respond(t)
          \/ delete_filter(t)
          \/ t_new_index(t)
          \/ t_new_meta(t)
          \/ delete_embed_add(t)
          \/ delete_set_id(t)
          \/ delete_meta_append(t)
          \/ clear_remove_index(t)
          \/ clear_remove_meta(t)

ConcSpec == ConcInit /\ [][ConcNext]_vars

(* ------------- the session store of app.py, side by side --------------- *)
\* app.py keeps the index and the catalog in st.session_state and has no
\* files. Each step applies one call with the same arguments to the store of
\* vector_store.py and to the store of app.py; no fault is injected.

\* _init_store()
init_store(ss) ==
    IF ss.init THEN ss
    ELSE [init |-> TRUE, faiss_index |-> << >>, resume_meta |-> << >>]

\* app.py add_resume(filename, text, embedding)
app_add_resume(filename, text, embedding) ==
    LET ss == init_store(session_state)
        faiss_index == Append(ss.faiss_index, embedding)
    IN  /\ Len(ss.resume_meta) < MaxN
        /\ session_state' =
              [ss EXCEPT !.faiss_index = faiss_index,
                         !.resume_meta = Append(@, Rec(Len(faiss_index) - 1, filename,
                                                       Preview(text)))]
        /\ app_last' = [NoAppCall EXCEPT !.op = "add", !.ret = "done"]

\* app.py search_resumes(query_embedding, top_k): the threshold is MIN_SCORE
app_search_resumes(query_embedding, top_k, order) ==
    LET ss == init_store(session_state)
        cands == SubSeq(order, 1, SearchK(top_k, Len(ss.faiss_index)))
        results == SearchLoop(cands, ss.faiss_index, ss.resume_meta,
                              query_embedding, top_k, MIN_SCORE, << >>)
    IN  /\ session_state' = ss
        /\ app_last' = [NoAppCall EXCEPT !.op = "search", !.ret = "done",
                           !.results = IF Len(ss.faiss_index) = 0 THEN << >>
                                       ELSE SortByScoreDesc(results)]

\* app.py delete_resume(filename)
app_delete_resume(filename) ==
    LET ss == init_store(session_state)
        new_meta == Without(ss.resume_meta, filename)
        n == Len(new_meta)
    IN  IF n = Len(ss.resume_meta)
        THEN /\ session_state' = ss
             /\ app_last' = [NoAppCall EXCEPT !.op = "delete", !.ret = "false"]
        ELSE /\ session_state' = [ss EXCEPT !.faiss_index = Reembedded(new_meta, n),
                                            !.resume_meta = Reindexed(new_meta, n)]
             /\ app_last' = [NoAppCall EXCEPT !.op = "delete", !.ret = "true"]

\* app.py clear_all()
app_clear_all ==
    /\ session_state' = [init |-> TRUE, faiss_index |-> << >>, resume_meta |-> << >>]
    /\ app_last' = [NoAppCall EXCEPT !.op = "clear", !.ret = "done"]

\* app.py get_all_resumes()
app_get_all_resumes == init_store(session_state).resume_meta

BothAdd ==
    /\ \E f \in Filenames, t \in Texts, e \in Embeddings :
          add_resume(f, t, e, "none") /\ app_add_resume(f, t, e)
    /\ UNCHANGED << live, concVars >>

\* index.search on two indexes of the same vectors gives the same order
BothSearch ==
    /\ \E q \in Queries, k \in TopKs :
          \E o \in IndexSearchOrders(GetIndex(index, INDEX_FILE).vecs, q),
             ao \in IndexSearchOrders(init_store(session_state).faiss_index, q) :
             /\ GetIndex(index, INDEX_FILE).vecs = init_store(session_state).faiss_index
                   => o = ao
             /\ search_resumes(q, k, MIN_SCORE, o)
             /\ app_search_resumes(q, k, ao)
    /\ UNCHANGED << live, concVars >>

BothDelete ==
    /\ \E f \in Filenames : delete_resume(f, "none", 0) /\ app_delete_resume(f)
    /\ UNCHANGED << live, concVars >>

BothClear ==
    /\ clear_all("none") /\ app_clear_all
    /\ UNCHANGED << live, concVars >>

\* both stores empty: no files, nothing loaded, no session
EquivInit ==
    /\ index = NoneIndex /\ meta = << >> /\ last = NoCall /\ faults = 0
    /\ live = {}
    /\ INDEX_FILE = AbsentIndexFile /\ META_FILE = AbsentMetaFile
    /\ g_index = 0 /\ g_meta = 0
    /\ indexes = << >> /\ lists = << >> /\ dicts = << >>
    /\ th = << >>
    /\ session_state = NoSession /\ app_last = NoAppCall

EquivNext ==
    \/ BothAdd
    \/ BothSearch
    \/ BothDelete
    \/ BothClear

EquivSpec == EquivInit /\ [][EquivNext]_vars

(* ------------------------------- claims -------------------------------- *)
Lockstep(vs, m) ==
    /\ Len(m) = Len(vs)
    /\ \A i \in 1..Len(m) : m[i].id = i - 1

Names(m) == {m[i].filename : i \in 1..Len(m)}

\* the index and the catalog the next call will work on
Visible == << IndexView, MetaView >>

Readable(m) == [raised |-> FALSE, meta |-> m]

\* the state a mutating call is to produce, from the state before it and
\* the arguments of the call recorded in last'
FullPost ==
    CASE last'.op = "add" ->
           << Append(IndexView, last'.embedding),
              Readable(Append(Catalog, Rec(Len(IndexView), last'.filename,
                                           Slice(last'.text, PREVIEW_LEN)))) >>
      [] last'.op = "delete" ->
           LET keep(r) == r.filename # last'.filename
               surv == SelectSeq(Catalog, keep)
           IN  << [i \in 1..Len(surv) |-> embed_text(surv[i].text)],
                  Readable([i \in 1..Len(surv) |-> [surv[i] EXCEPT !.id = i - 1]]) >>
      [] OTHER -> << << >>, Readable(<< >>) >>

FilesUnchanged == INDEX_FILE' = INDEX_FILE /\ META_FILE' = META_FILE

\* C1: in every reachable state the catalog has as many records as the index
\* has vectors, and the record at offset i has id i.
C1_Lockstep == Lockstep(IndexView, Catalog)

\* C4: after a crash between the write of the index file and the write of the
\* catalog file, the pair that is loaded next is the state before the call or
\* the state the call was to produce.
C4_CrashSafeSave ==
    [][ (last'.op \in {"add", "delete"} /\ last'.fault = "crash_between")
        => (Visible' = Visible \/ Visible' = FullPost) ]_vars

\* C5: a mutating call that raises leaves the index and the catalog the next
\* call sees either as they were before the call or as the call was to make
\* them.
C5_AllOrNothing ==
    [][ (last'.op \in {"add", "delete", "clear"} /\ last'.ret = "raise")
        => (Visible' = Visible \/ Visible' = FullPost) ]_vars

NoDuplicateFilenames ==
    \A i, j \in 1..Len(Catalog) :
        i # j => Catalog[i].filename # Catalog[j].filename

\* C6: add_resume with a filename the catalog already holds is rejected and
\* changes nothing, so no two catalog records ever share a filename.
C6_DuplicateRejected ==
    /\ []NoDuplicateFilenames
    /\ [][ (last'.op = "add" /\ last'.filename \in Names(Catalog))
           => (last'.ret = "raise" /\ Visible' = Visible /\ FilesUnchanged) ]_vars

\* C7: after delete_resume(x) returns true the catalog holds no record named
\* x and holds the other records once each, in their order, with filename and
\* text as before and ids 0..len-1.
C7_DeleteCorrect ==
    [][ (last'.op = "delete" /\ last'.ret = "true")
        => LET x == last'.filename
               keep(r) == r.filename # x
               surv == SelectSeq(Catalog, keep)
               post == Catalog'
           IN  /\ ~MetaView'.raised
               /\ x \notin Names(post)
               /\ Len(post) = Len(surv)
               /\ \A i \in 1..Len(post) :
                     /\ post[i].filename = surv[i].filename
                     /\ post[i].text = surv[i].text
                     /\ post[i].id = i - 1 ]_vars

\* a delete of the second of six records returned true: the first keeps id 0
\* and the third has moved down to id 1
C7_Witness ==
    /\ last.op = "delete" /\ last.ret = "true" /\ last.filename = "b"
    /\ Len(Catalog) = FETCH_FACTOR
    /\ Catalog[1].filename = "a" /\ Catalog[1].id = 0
    /\ Catalog[2].filename = "c" /\ Catalog[2].id = 1

\* C8: delete_resume with a filename no catalog record has returns false and
\* leaves index, catalog and files as they were.
C8_DeleteMissing ==
    [][ (last'.op = "delete" /\ last'.filename \notin Names(Catalog))
        => (last'.ret = "false" /\ Visible' = Visible /\ FilesUnchanged) ]_vars

\* the score of the j-th candidate of the last search, and whether a catalog
\* record stands at its position
CandScore(j) == ScoreOf(L2(index.vecs[last.cands[j] + 1], last.embedding))
CandHasRecord(j) == last.cands[j] < Len(meta)
CandEntry(j) ==
    LET r == meta[last.cands[j] + 1]
    IN  [id |-> r.id, filename |-> r.filename, text |-> r.text,
         score |-> CandScore(j)]
Qualifies(j) == CandHasRecord(j) /\ CandScore(j) >= last.min_score
Returned == {last.results[i] : i \in 1..Len(last.results)}

C10_SearchTotal ==
    last.op = "search" =>
        /\ last.ret = "done"
        /\ Len(last.results) <= last.top_k
        /\ \A i \in 1..(Len(last.results) - 1) :
              last.results[i].score >= last.results[i + 1].score
        /\ Len(index.vecs) = 0 => last.results = << >>
        /\ (\A j \in 1..Len(last.cands) : ~Qualifies(j)) => last.results = << >>

(* ------------------------ claims on concurrent calls ------------------- *)
\* the index and the catalog the next call will work on
HeapView ==
    LET gi == HeapGetIndex
        gm == HeapGetMeta(META_FILE)
    IN  [vecs |-> gi.indexes[gi.ref],
         raised |-> gm.raised,
         meta |-> [k \in 1..Len(gm.lists[gm.ref]) |-> gm.dicts[gm.lists[gm.ref][k]]]]

Stored == [vecs |-> StoredVecs, meta |-> StoredRecs]

\* what one mutating call makes of a store when it runs alone
SerialCall(s, c) ==
    CASE c.op = "add" ->
           [vecs |-> Append(s.vecs, c.embedding),
            meta |-> Append(s.meta, Rec(Len(s.vecs), c.filename, Preview(c.text)))]
      [] c.op = "delete" ->
           LET new_meta == Without(s.meta, c.filename)
           IN  IF Len(new_meta) = Len(s.meta) THEN s
               ELSE [vecs |-> Reembedded(new_meta, Len(new_meta)),
                     meta |-> Reindexed(new_meta, Len(new_meta))]
      [] OTHER -> [vecs |-> << >>, meta |-> << >>]

RECURSIVE SerialRun(_, _)
SerialRun(s, o) ==
    IF o = << >> THEN s ELSE SerialRun(SerialCall(s, th[Head(o)]), Tail(o))

Mutators == {t \in Threads : th[t].op \in {"add", "delete", "clear"}}
SerialOrders ==
    {o \in [1..Cardinality(Mutators) -> Mutators] :
        \A i, j \in DOMAIN o : i # j => o[i] # o[j]}

Quiescent == \A t \in Threads : th[t].pc \in {"idle", "done"}
NoneRaised == \A t \in Threads : th[t].ret # "raise"

\* C2: when concurrent mutating calls have all returned, the index and the
\* catalog are those that some serial order of the calls produces.
C2_Serializable ==
    (Quiescent /\ NoneRaised /\ Cardinality(Mutators) >= 2)
       => \E o \in SerialOrders :
             LET s == SerialRun(Stored, o)
             IN  /\ ~HeapView.raised
                 /\ HeapView.vecs = s.vecs
                 /\ HeapView.meta = s.meta

\* C3: a search or a listing that ran while one delete_resume ran saw the
\* index and the catalog of before the delete, or those of after it.
C3_SnapshotRead ==
    \A r, d \in Threads :
       ( /\ th[r].op \in {"search", "list"} /\ th[r].pc = "done"
         /\ th[d].op = "delete"
         /\ \A t \in Threads \ {r, d} : th[t].op = "none" )
       => LET post == SerialCall(Stored, th[d])
              seen == [vecs |-> th[r].obs_index, meta |-> th[r].obs_meta]
          IN  /\ th[r].ret = "done"
              /\ IF th[r].op = "search"
                 THEN seen \in {Stored, post}
                 ELSE seen.meta \in {Stored.meta, post.meta}

(* -------------------- claims on persistence and frames ----------------- *)
\* the index and the catalog a process started now would load on first use
ReloadedIndex == GetIndex(NoneIndex, INDEX_FILE).vecs
ReloadedMeta == GetMeta(<< >>, META_FILE)

Succeeded ==
    \/ last.op \in {"add", "clear"} /\ last.ret = "done"
    \/ last.op = "delete" /\ last.ret = "true"

\* C11: when add_resume, delete_resume or clear_all has returned normally, a
\* restart followed by the load on first use gives the vectors and the
\* records that are in memory, in their order; a restart with no files gives
\* an empty index and an empty catalog; and what the first call after a
\* restart works on is what the files hold.
C11_PersistenceRoundTrip ==
    /\ [](Succeeded =>
            /\ ReloadedIndex = index.vecs
            /\ ReloadedMeta = Readable(meta))
    /\ []((~INDEX_FILE.exists /\ META_FILE.state = "absent") =>
            /\ ReloadedIndex = << >>
            /\ ReloadedMeta = Readable(<< >>))
    /\ [][ last'.op = "restart" =>
             /\ IndexView' = ReloadedIndex
             /\ MetaView' = ReloadedMeta ]_vars

\* a second add_resume has returned: two vectors and two records are in
\* memory and in the files, the second with a preview cut from a longer text
C11_Witness ==
    /\ last.op = "add" /\ last.ret = "done"
    /\ Len(index.vecs) = MaxN /\ Len(meta) = MaxN
    /\ last.text = LongText /\ meta[MaxN].text # LongText
    /\ INDEX_FILE.exists /\ META_FILE.state = "json"

\* C12: clear_all returns normally from every state and leaves an index of no
\* vectors, an empty catalog and neither file; called on the state a
\* clear_all has left it returns normally and changes nothing.
C12_ClearIdempotent ==
    [][ (last'.op = "clear" /\ last'.fault = "none")
        => /\ last'.ret = "done"
           /\ ~index'.isNone /\ index'.vecs = << >> /\ meta' = << >>
           /\ ~INDEX_FILE'.exists /\ META_FILE'.state = "absent"
           /\ IndexView' = << >> /\ MetaView' = Readable(<< >>)
           /\ Emptied => UNCHANGED << index, meta, INDEX_FILE, META_FILE >> ]_vars

\* clear_all has returned from a call on the state an earlier clear_all left
C12_Witness ==
    /\ last.op = "clear" /\ last.ret = "done" /\ last.again
    /\ Emptied

\* C13: add_resume(filename, text, embedding) that returns normally on a
\* store of N records appends the embedding to the index and the record
\* {id = N, filename, text[:1000]} to the catalog, leaves the N earlier
\* vectors and records as they were, and writes both to the files.
C13_AddFrame ==
    [][ (last'.op = "add" /\ last'.ret = "done")
        => LET N == Len(Catalog)
           IN  /\ IndexView' = Append(IndexView, last'.embedding)
               /\ MetaView' = Readable(Append(Catalog,
                                 Rec(N, last'.filename, Slice(last'.text, PREVIEW_LEN))))
               /\ INDEX_FILE' = write_index(IndexFlatL2(IndexView'))
               /\ META_FILE' = json_dump(Catalog') ]_vars

\* C14: add_resume with an embedding whose length is not DIMENSION fails on
\* the check of the dimension and leaves the index, the catalog and both
\* files as they were.
C14_DimensionMismatch ==
    [][ (last'.op = "add" /\ last'.embedding.dim # DIMENSION)
        => /\ last'.ret = "raise"
           /\ last'.error = "AssertionError"
           /\ Visible' = Visible
           /\ FilesUnchanged ]_vars

(* ------------------------- claims on the scores ------------------------ *)
\* C15: a search with the embedding E of a record that add_resume stored,
\* that was not deleted or cleared, with no rebuild of the index since,
\* returns a first result of score 1.0; when the store holds that record
\* alone the result is that record with score 1.0 and nothing else.
C15_SelfSearch ==
    \A r \in live :
       (last.op = "search" /\ last.embedding = r.embedding)
       => /\ last.ret = "done"
          /\ Len(last.results) >= 1
          /\ last.results[1].score = SCORE_DIGITS
          /\ (Cardinality(live) = 1 /\ Len(meta) = 1)
                => /\ Len(last.results) = 1
                   /\ last.results[1].filename = r.filename

\* the index holds at every position the embedding of the preview of the
\* catalog record at that position
Rebuilt(vs, m) ==
    /\ Lockstep(vs, m)
    /\ \A i \in 1..Len(m) : vs[i] = embed_text(m[i].text)

\* C16: when delete_resume has returned true the vector at every position is
\* the embedding of the preview of the record at that position, whatever
\* embedding the record was added with; and a search of such a store with the
\* embedding of the preview of a record, top_k at least the number of
\* records and min_score <= 1.0, returns that record with score 1.0.
C16_RebuildReembeds ==
    /\ [][ (last'.op = "delete" /\ last'.ret = "true")
           => /\ ~MetaView'.raised
              /\ Rebuilt(IndexView', Catalog') ]_vars
    /\ []( ( /\ last.op = "search"
             /\ Rebuilt(index.vecs, meta)
             /\ last.top_k >= Len(meta) /\ last.min_score <= SCORE_DIGITS )
           => \A p \in 1..Len(meta) :
                 last.embedding = embed_text(meta[p].text)
                 => /\ last.ret = "done"
                    /\ [id |-> p - 1, filename |-> meta[p].filename,
                        text |-> meta[p].text, score |-> SCORE_DIGITS] \in Returned )

\* after delete_resume('a') on the store of three records added with other
\* embeddings, a search with the embedding of the preview of 'b' and
\* top_k = 2 has returned 'b' with score 1.0 before 'c'
C16_Witness ==
    /\ last.op = "search" /\ last.ret = "done" /\ last.top_k = 2
    /\ Len(meta) = 2 /\ meta[1].filename = "b" /\ meta[2].filename = "c"
    /\ Rebuilt(index.vecs, meta)
    /\ last.embedding = embed_text(meta[1].text)
    /\ Len(last.results) = 2
    /\ last.results[1].filename = "b" /\ last.results[1].score = SCORE_DIGITS
    /\ last.results[1].id = 0

\* the records an exhaustive scan in the order o of the whole index gives:
\* the first top_k positions of o that have a catalog record with
\* score >= min_score
ExhaustiveScan(o) ==
    LET score(idx) == ScoreOf(L2(index.vecs[idx + 1], last.embedding))
        qualifies(idx) == idx < Len(meta) /\ score(idx) >= last.min_score
        qual == SelectSeq(o, qualifies)
    IN  { [id |-> meta[qual[i] + 1].id, filename |-> meta[qual[i] + 1].filename,
           text |-> meta[qual[i] + 1].text, score |-> score(qual[i])]
          : i \in 1..Min(last.top_k, Len(qual)) }

\* C17: the results of search_resumes are the first min(top_k, q) records
\* with score >= min_score in an order of ascending distance over the whole
\* index, q being the number of records with score >= min_score: the look at
\* the min(top_k * 5, N) nearest vectors only loses no such record.
C17_OverfetchExhaustive ==
    (last.op = "search" /\ last.ret = "done")
    => \E o \in IndexSearchOrders(index.vecs, last.embedding) :
          Returned = ExhaustiveScan(o)

(* --------------------------- claims on reads --------------------------- *)
RecordKeys == {"id", "filename", "text"}

\* C18: search_resumes and get_all_resumes leave the vectors of the index,
\* the records of the catalog and both files as they were, and a record of
\* the catalog never has a score.
C18_ReadOnly ==
    /\ [][ last'.op \in {"search", "list"}
           => /\ Visible' = Visible
              /\ FilesUnchanged ]_vars
    /\ [](\A i \in 1..Len(meta) : DOMAIN meta[i] = RecordKeys)

\* a search has returned a scored record of a store whose catalog was loaded
\* before the call, and get_all_resumes will return that record unscored
C18_Witness ==
    /\ last.op = "search" /\ last.ret = "done"
    /\ Len(last.results) >= 1
    /\ DOMAIN last.results[1] = RecordKeys \cup {"score"}
    /\ \E i \in 1..Len(meta) :
          /\ meta[i].filename = last.results[1].filename
          /\ DOMAIN meta[i] = RecordKeys

(* ------------------- claims on the two stores side by side ------------- *)
\* C19: after every step of a run that applies the same calls to the store
\* of vector_store.py and to the store of app.py, starting from empty and
\* with no fault, the two calls have returned the same: the same boolean
\* from delete_resume, the same list from search_resumes, and
\* get_all_resumes gives the same catalog on both.
C19_StoresEquivalent ==
    /\ last.op = app_last.op
    /\ last.op \in {"add", "delete", "clear"} => last.ret = app_last.ret
    /\ last.op = "search" => (last.ret = "done" /\ last.results = app_last.results)
    /\ MetaView = Readable(app_get_all_resumes)

====
